---------------------------- MODULE Spec2Model ----------------------------
(***************************************************************************)
(* EV utility scoring: server.py (MCP tool adapter) and app.py (Gradio UI  *)
(* adapter) over one external Upstash Redis store.                         *)
(*                                                                         *)
(* Numbers are exact fixed point.  A raw feature value v is the integer    *)
(* 100*v, a coefficient c is the integer 10*c, a scaled feature f is the   *)
(* integer 100000*f and a utility u is the integer 1000000*u, so that the  *)
(* dot product of scaled features and coefficients is an integer product.  *)
(* Python's None is the empty tuple and a present value v is <<v>>.        *)
(***************************************************************************)
EXTENDS Integers, Sequences, FiniteSets, TLC

VARIABLES
    store,           \* the external Redis store: key -> stored value
    DEFAULT_COEFFS,  \* each module's process-wide default dict
    pc,              \* "idle", "loop" (inside the for loop), "done"
    adapter,         \* "server" or "app": the module handling the call
    tool,            \* "resolve", "calculate_utility", "find_best_car"
    user_id,         \* the call's user_id argument
    cars_json,       \* find_best_car's candidate argument
    data_str,        \* what redis.get returned to this call, None before
    coeffs,          \* the call's local coeffs, None before it is bound
    idx,             \* position of the for loop in cars
    best_car,        \* local best_car (None or a scored record)
    best_utility,    \* local best_utility (None stands for -inf)
    all_results,     \* local all_results
    lookups,         \* number of redis.get calls made by this call
    outcome          \* None, or how the call ended

vars == <<store, DEFAULT_COEFFS, pc, adapter, tool, user_id, cars_json, data_str,
          coeffs, idx, best_car, best_utility, all_results, lookups,
          outcome>>

None == <<>>
Some(v) == <<v>>

\* Largest number of candidates in one find_best_car call.
MaxCars == 2

Modules == {"server", "app"}

Users == {"benjo", "test_user_nonexistent"}

FEATURE_KEYS == <<"price", "range", "efficiency", "acceleration", "fast_charge", "seat_count">>

DEFAULT_COEFFS_INIT ==
    [price |-> -5, range |-> 8, efficiency |-> -3,
     acceleration |-> -5, fast_charge |-> 6, seat_count |-> 4]

(***************************************************************************)
(* Inputs.                                                                 *)
(***************************************************************************)
\* The first example car of app.py and test_local.py.
TeslaModel3 ==
    [name |-> "Tesla Model 3", price |-> Some(4500000), range |-> Some(50000),
     efficiency |-> Some(15000), acceleration |-> Some(610),
     fast_charge |-> Some(17000), seat_count |-> Some(500)]

\* Candidate records: complete, with missing keys, with a null, with an extra key.
CarPool ==
    { TeslaModel3,
      [price |-> Some(100000)],
      [name |-> "B", price |-> Some(100004), range |-> None],
      [price |-> Some(100000), seat_count |-> Some(0)] }

RECURSIVE SeqsUpTo(_, _)
SeqsUpTo(S, n) ==
    IF n = 0 THEN {<<>>}
    ELSE LET shorter == SeqsUpTo(S, n - 1)
         IN  shorter \cup {Append(s, x) : s \in {t \in shorter : Len(t) = n - 1}, x \in S}

\* The cars argument: text that is a JSON array of records, or text that is not JSON.
CarsInputs ==
    {[valid |-> TRUE, cars |-> cs] : cs \in SeqsUpTo(CarPool, MaxCars)}
        \cup {[valid |-> FALSE, cars |-> <<>>]}

\* Arguments of calculate_utility: the schema requires the six numbers.
CompleteCars ==
    {c \in CarPool : \A i \in 1..Len(FEATURE_KEYS) :
        FEATURE_KEYS[i] \in DOMAIN c /\ c[FEATURE_KEYS[i]] # None}

(***************************************************************************)
(* The store's contents, written by the external training system.          *)
(***************************************************************************)
TrainedCoeffs ==
    [price |-> -1, range |-> 2, efficiency |-> -1,
     acceleration |-> -2, fast_charge |-> 3, seat_count |-> 9]

SameAsDefaultCoeffs ==
    [price |-> -5, range |-> 8, efficiency |-> -3,
     acceleration |-> -5, fast_charge |-> 6, seat_count |-> 4]

PartialCoeffs == [price |-> -1, range |-> 2, acceleration |-> -2]

Envelope == [price |-> 9, seat_count |-> 1]

Absent == [kind |-> "absent", data |-> <<>>]
Corrupt == [kind |-> "corrupt", data |-> <<>>]
Object(d) == [kind |-> "object", data |-> d]

StoredValues ==
    { Absent, Corrupt,
      Object(("coeffs" :> TrainedCoeffs) @@ ("meta" :> Envelope)),
      Object(("coeffs" :> SameAsDefaultCoeffs)),
      Object(("coeffs" :> PartialCoeffs) @@ ("meta" :> Envelope)),
      Object(("meta" :> Envelope)) }

redis_key(uid) == "params:" \o uid

RedisKeys == {redis_key(u) : u \in Users}

redis_get(key) == store[key]

(***************************************************************************)
(* Outcomes of a function: a returned value or a raised exception.         *)
(***************************************************************************)
Returned(v) == [raised |-> FALSE, value |-> v]
Raised(e) == [raised |-> TRUE, value |-> e]

JSONDecodeError == [type |-> "JSONDecodeError", arg |-> "Expecting value: line 1 column 1 (char 0)"]
KeyError(k) == [type |-> "KeyError", arg |-> k]

\* str(e): a KeyError prints the repr of its key.
str(e) == IF e.type = "KeyError" THEN "'" \o e.arg \o "'" ELSE e.arg

dict_get(d, k, default) == IF k \in DOMAIN d THEN d[k] ELSE default

(***************************************************************************)
(* get_user_coefficients                                                   *)
(***************************************************************************)
\* Variant: the stored mapping is overlaid on the defaults.
get_user_coefficients_merged(m, uid) ==
    LET got == redis_get(redis_key(uid))
        found == dict_get(got.data, "coeffs", DEFAULT_COEFFS[m])
    IN  IF got.kind = "absent" THEN Returned(DEFAULT_COEFFS[m])
        ELSE IF got.kind = "corrupt" THEN Raised(JSONDecodeError)
        ELSE Returned(found @@ DEFAULT_COEFFS[m])

\* Variant: a value that does not parse is treated like a missing one.
get_user_coefficients_lenient(m, uid) ==
    LET got == redis_get(redis_key(uid))
    IN  IF got.kind = "absent" \/ got.kind = "corrupt" THEN Returned(DEFAULT_COEFFS[m])
        ELSE Returned(dict_get(got.data, "coeffs", DEFAULT_COEFFS[m]))

\* Variant: the default handed out for a missing key is an empty mapping.
get_user_coefficients_no_fallback(m, uid) ==
    LET got == redis_get(redis_key(uid))
        empty == [k \in {} |-> 0]
    IN  IF got.kind = "absent" THEN Returned(empty)
        ELSE IF got.kind = "corrupt" THEN Raised(JSONDecodeError)
        ELSE Returned(dict_get(got.data, "coeffs", DEFAULT_COEFFS[m]))

get_user_coefficients(m, uid) ==
    LET got == redis_get(redis_key(uid))
    IN  IF got.kind = "absent" THEN Returned(DEFAULT_COEFFS[m])
        ELSE IF got.kind = "corrupt" THEN Raised(JSONDecodeError)
        ELSE Returned(dict_get(got.data, "coeffs", DEFAULT_COEFFS[m]))

(***************************************************************************)
(* scale_features and calculate_utility_score                              *)
(***************************************************************************)
get_val(car, key) ==
    LET val == IF key \in DOMAIN car THEN car[key] ELSE None
    IN  IF val = None THEN 0 ELSE val[1]

\* Variant: fast_charge scaled with the divisor of efficiency.
scale_features_wrong_divisor(car) ==
    << get_val(car, "price") * (1000 \div 1000),
       get_val(car, "range") * (1000 \div 100),
       get_val(car, "efficiency") * (1000 \div 10),
       get_val(car, "acceleration") * 1000,
       get_val(car, "fast_charge") * (1000 \div 10),
       get_val(car, "seat_count") * 1000 >>

\* value / divisor, in units of 1/100000: v * (1000 \div divisor) for v in 1/100.
scale_features(car) ==
    << get_val(car, "price") * (1000 \div 1000),
       get_val(car, "range") * (1000 \div 100),
       get_val(car, "efficiency") * (1000 \div 10),
       get_val(car, "acceleration") * 1000,
       get_val(car, "fast_charge") * (1000 \div 100),
       get_val(car, "seat_count") * 1000 >>

RECURSIVE dot(_, _)
dot(fs, cs) ==
    IF fs = <<>> \/ cs = <<>> THEN 0
    ELSE Head(fs) * Head(cs) + dot(Tail(fs), Tail(cs))

Min(S) == CHOOSE x \in S : \A y \in S : x <= y

calculate_utility_score(car, c) ==
    LET scaled_features == scale_features(car)
        absent == {i \in 1..Len(FEATURE_KEYS) : FEATURE_KEYS[i] \notin DOMAIN c}
    IN  IF absent # {} THEN Raised(KeyError(FEATURE_KEYS[Min(absent)]))
        ELSE Returned(dot(scaled_features,
                          [i \in 1..Len(FEATURE_KEYS) |-> c[FEATURE_KEYS[i]]]))

(***************************************************************************)
(* round(x, ndigits) on a fixed-point number n counting units of 1/per:    *)
(* nearest multiple of 10^-ndigits, ties to even.                          *)
(***************************************************************************)
RECURSIVE Pow10(_)
Pow10(k) == IF k = 0 THEN 1 ELSE 10 * Pow10(k - 1)

round(n, per, ndigits) ==
    IF Pow10(ndigits) % per = 0 THEN n
    ELSE LET q == per \div Pow10(ndigits)
             lo == n \div q
             r == n % q
         IN  IF 2 * r < q THEN lo * q
             ELSE IF 2 * r > q THEN (lo + 1) * q
             ELSE IF lo % 2 = 0 THEN lo * q ELSE (lo + 1) * q

\* What each adapter stores in a result's utility field.
shown_utility(m, u) == IF m = "app" THEN round(u, 1000000, 4) ELSE u

\* What each adapter reports as coefficients_used.
coefficients_used(m, c) ==
    IF m = "app" THEN [k \in DOMAIN c |-> round(c[k], 10, 4)] ELSE c

note(m, c) ==
    IF c = DEFAULT_COEFFS[m] THEN "Using default coefficients"
    ELSE "Using saved user preferences"

\* {**car, "utility": u}
with_utility(car, u) == ("utility" :> u) @@ car

(***************************************************************************)
(* list.sort(key=lambda x: x["utility"], reverse=True): stable, descending *)
(***************************************************************************)
\* Variant: a record is placed before the records it ties with.
insert_desc_before_ties(sorted, x) ==
    SelectSeq(sorted, LAMBDA y : y.utility > x.utility) \o <<x>>
        \o SelectSeq(sorted, LAMBDA y : y.utility <= x.utility)

insert_desc(sorted, x) ==
    SelectSeq(sorted, LAMBDA y : y.utility >= x.utility) \o <<x>>
        \o SelectSeq(sorted, LAMBDA y : y.utility < x.utility)

RECURSIVE sort_desc(_)
sort_desc(s) ==
    IF s = <<>> THEN <<>>
    ELSE insert_desc(sort_desc(SubSeq(s, 1, Len(s) - 1)), s[Len(s)])


(***************************************************************************)
(* How a call ends.  server.py lets an exception leave the handler; the    *)
(* app.py handlers catch it and return an error payload.                   *)
(***************************************************************************)
raises(e) == Some([kind |-> "raise", exc |-> e])
returns(body) == Some([kind |-> "return", body |-> body])

fail(m, t, e) ==
    IF m = "app" /\ t = "find_best_car" /\ e.type = "JSONDecodeError"
    THEN returns([error |-> "Invalid JSON format"])
    ELSE IF m = "app" /\ t # "resolve" THEN returns([error |-> str(e)])
    ELSE raises(e)

NoCars == [valid |-> TRUE, cars |-> <<>>]

\* utility > best_utility, best_utility starting at float('-inf')
exceeds(utility, best) == best = None \/ utility > best[1]

\* Variant: the loop resolves the coefficients again for every record.
loop_coeffs_fresh ==
    LET r == get_user_coefficients(adapter, user_id)
    IN  IF r.raised THEN coeffs[1] ELSE r.value

\* The coefficient vector the for loop passes to calculate_utility_score.
loop_coeffs == coeffs[1]

\* car_features of the single-car handlers, built from the six arguments.
car_features_of(m, args) ==
    [k \in {FEATURE_KEYS[i] : i \in 1..Len(FEATURE_KEYS)} |->
        IF m = "app" THEN dict_get(args, k, None) ELSE args[k]]

single_result(m, uid, car_features, c, utility) ==
    IF m = "app"
    THEN [user_id |-> uid,
          utility_score |-> round(utility, 1000000, 4),
          coefficients_used |-> coefficients_used(m, c),
          car_features |-> car_features,
          note |-> note(m, c)]
    ELSE [user_id |-> uid,
          utility |-> utility,
          coefficients_used |-> c,
          car_features |-> car_features]

best_result(m, uid, best, results, c) ==
    IF m = "app"
    THEN [user_id |-> uid,
          best_car |-> best,
          all_cars_ranked |-> results,
          coefficients_used |-> coefficients_used(m, c),
          note |-> note(m, c)]
    ELSE [user_id |-> uid,
          best_car |-> best,
          all_cars_with_utilities |-> results,
          coefficients_used |-> c]

(***************************************************************************)
(* State machine                                                           *)
(***************************************************************************)
Init ==
    /\ store \in [RedisKeys -> StoredValues]
    /\ DEFAULT_COEFFS = [m \in Modules |-> DEFAULT_COEFFS_INIT]
    /\ pc = "idle"
    /\ adapter = "server"
    /\ tool = "resolve"
    /\ user_id = "benjo"
    /\ cars_json = NoCars
    /\ data_str = None
    /\ coeffs = None
    /\ idx = 1
    /\ best_car = None
    /\ best_utility = None
    /\ all_results = <<>>
    /\ lookups = 0
    /\ outcome = None

\* The training system saves, replaces or deletes a user's entry.
TrainingWrite(uid, v) ==
    /\ store[redis_key(uid)].kind # v.kind \/ store[redis_key(uid)].data # v.data
    /\ store' = [store EXCEPT ![redis_key(uid)] = v]
    /\ UNCHANGED <<DEFAULT_COEFFS, pc, adapter, tool, user_id, cars_json, data_str,
                   coeffs, idx, best_car, best_utility, all_results, lookups, outcome>>

\* A direct call of get_user_coefficients, as test_local.py makes.
CallResolve(m, uid) ==
    /\ pc = "idle"
    /\ LET r == get_user_coefficients(m, uid)
       IN  /\ coeffs' = IF r.raised THEN None ELSE Some(r.value)
           /\ outcome' = IF r.raised THEN raises(r.value) ELSE returns(r.value)
    /\ data_str' = Some(redis_get(redis_key(uid)))
    /\ lookups' = 1
    /\ pc' = "done"
    /\ adapter' = m
    /\ tool' = "resolve"
    /\ user_id' = uid
    /\ UNCHANGED <<store, DEFAULT_COEFFS, cars_json, idx, best_car, best_utility,
                   all_results>>

\* handle_call_tool("calculate_utility") / calculate_single_utility
CallCalculateUtility(m, uid, args) ==
    /\ pc = "idle"
    /\ m = "server" => args \in CompleteCars
    /\ LET r == get_user_coefficients(m, uid)
           car_features == car_features_of(m, args)
           s == calculate_utility_score(car_features, r.value)
       IN  /\ coeffs' = IF r.raised THEN None ELSE Some(r.value)
           /\ outcome' =
                IF r.raised THEN fail(m, "calculate_utility", r.value)
                ELSE IF s.raised THEN fail(m, "calculate_utility", s.value)
                ELSE returns(single_result(m, uid, car_features, r.value, s.value))
    /\ data_str' = Some(redis_get(redis_key(uid)))
    /\ lookups' = 1
    /\ pc' = "done"
    /\ adapter' = m
    /\ tool' = "calculate_utility"
    /\ user_id' = uid
    /\ cars_json' = [valid |-> TRUE, cars |-> <<args>>]
    /\ UNCHANGED <<store, DEFAULT_COEFFS, idx, best_car, best_utility,
                   all_results>>

\* handle_call_tool("find_best_car") / find_best_from_list, up to the for loop
BeginFindBest(m, uid, input) ==
    /\ pc = "idle"
    /\ m = "server" => input.valid
    /\ adapter' = m
    /\ tool' = "find_best_car"
    /\ user_id' = uid
    /\ cars_json' = input
    /\ IF ~input.valid
       THEN /\ outcome' = fail(m, "find_best_car", JSONDecodeError)
            /\ pc' = "done"
            /\ UNCHANGED <<data_str, coeffs, lookups>>
       ELSE LET r == get_user_coefficients(m, uid)
            IN  /\ data_str' = Some(redis_get(redis_key(uid)))
                /\ lookups' = 1
                /\ coeffs' = IF r.raised THEN None ELSE Some(r.value)
                /\ outcome' = IF r.raised THEN fail(m, "find_best_car", r.value) ELSE None
                /\ pc' = IF r.raised THEN "done" ELSE "loop"
    /\ idx' = 1
    /\ best_car' = None
    /\ best_utility' = None
    /\ all_results' = <<>>
    /\ UNCHANGED <<store, DEFAULT_COEFFS>>

\* One iteration of "for car in cars"
ScoreNextCar ==
    /\ pc = "loop"
    /\ idx <= Len(cars_json.cars)
    /\ LET car == cars_json.cars[idx]
           s == calculate_utility_score(car, loop_coeffs)
           car_result == with_utility(car, shown_utility(adapter, s.value))
       IN  IF s.raised
           THEN /\ outcome' = fail(adapter, tool, s.value)
                /\ pc' = "done"
                /\ UNCHANGED <<idx, best_car, best_utility, all_results>>
           ELSE /\ all_results' = Append(all_results, car_result)
                /\ best_utility' = IF exceeds(s.value, best_utility)
                                   THEN Some(s.value) ELSE best_utility
                /\ best_car' = IF exceeds(s.value, best_utility)
                               THEN Some(car_result) ELSE best_car
                /\ idx' = idx + 1
                /\ UNCHANGED <<outcome, pc>>
    /\ UNCHANGED <<store, DEFAULT_COEFFS, adapter, tool, user_id, cars_json,
                   data_str, coeffs, lookups>>

\* After the loop: app.py sorts all_results in place; both build the result.
FinishFindBest ==
    /\ pc = "loop"
    /\ idx > Len(cars_json.cars)
    /\ all_results' = IF adapter = "app" THEN sort_desc(all_results) ELSE all_results
    /\ outcome' = returns(best_result(adapter, user_id, best_car, all_results', coeffs[1]))
    /\ pc' = "done"
    /\ UNCHANGED <<store, DEFAULT_COEFFS, adapter, tool, user_id, cars_json,
                   data_str, coeffs, idx, best_car, best_utility, lookups>>

\* The response is delivered and the call's locals are discarded.
Return ==
    /\ pc = "done"
    /\ pc' = "idle"
    /\ adapter' = "server"
    /\ tool' = "resolve"
    /\ user_id' = "benjo"
    /\ cars_json' = NoCars
    /\ data_str' = None
    /\ coeffs' = None
    /\ idx' = 1
    /\ best_car' = None
    /\ best_utility' = None
    /\ all_results' = <<>>
    /\ lookups' = 0
    /\ outcome' = None
    /\ UNCHANGED <<store, DEFAULT_COEFFS>>

Next ==
    \/ \E uid \in Users, v \in StoredValues : TrainingWrite(uid, v)
    \/ \E m \in Modules, uid \in Users : CallResolve(m, uid)
    \/ \E m \in Modules, uid \in Users, args \in CarPool : CallCalculateUtility(m, uid, args)
    \/ \E m \in Modules, uid \in Users, input \in CarsInputs : BeginFindBest(m, uid, input)
    \/ ScoreNextCar
    \/ FinishFindBest
    \/ Return

Spec == Init /\ [][Next]_vars

(***************************************************************************)
(* Vocabulary of the properties                                            *)
(***************************************************************************)
Done == pc = "done"

Failed ==
    /\ outcome # None
    /\ \/ outcome[1].kind = "raise"
       \/ "error" \in DOMAIN outcome[1].body

Succeeded ==
    /\ outcome # None
    /\ outcome[1].kind = "return"
    /\ "error" \notin DOMAIN outcome[1].body

Body == outcome[1].body

Cars == cars_json.cars

\* The sequence of scored records a find_best_car result carries.
ReturnedRecords ==
    IF adapter = "app" THEN Body.all_cars_ranked ELSE Body.all_cars_with_utilities

RankedOk == Done /\ tool = "find_best_car" /\ Succeeded /\ Len(Cars) > 0

Max(S) == CHOOSE x \in S : \A y \in S : x >= y

\* The default vector {price:-0.5, range:0.8, efficiency:-0.3,
\* acceleration:-0.5, fast_charge:0.6, seat_count:0.4} in tenths.
TheDefault ==
    [price |-> -5, range |-> 8, efficiency |-> -3,
     acceleration |-> -5, fast_charge |-> 6, seat_count |-> 4]

\* resolve took the fallback path on the value d it read.
Fallback(d) == d.kind = "absent" \/ (d.kind = "object" /\ "coeffs" \notin DOMAIN d.data)

\* The vector resolve is to give for a readable value d.
Expected(d) == IF Fallback(d) THEN TheDefault ELSE d.data["coeffs"]

Num(car, k) == IF k \in DOMAIN car /\ car[k] # None THEN car[k][1] ELSE 0

\* sum over the six keys of (v_k / divisor_k) * coeff_k, in millionths.
Linear(car, c) ==
      Num(car, "price") * c.price
    + Num(car, "range") * c.range * 10
    + Num(car, "efficiency") * c.efficiency * 100
    + Num(car, "acceleration") * c.acceleration * 1000
    + Num(car, "fast_charge") * c.fast_charge * 10
    + Num(car, "seat_count") * c.seat_count * 1000

Complete(c) == \A i \in 1..Len(FEATURE_KEYS) : FEATURE_KEYS[i] \in DOMAIN c

(***************************************************************************)
(* C1: find_best_car with a candidate list of length zero ends in an error *)
(* outcome and never in a success payload.  The handlers return a payload  *)
(* with best_car None and an empty list instead.                           *)
(***************************************************************************)
C1_EmptyListFails ==
    (Done /\ tool = "find_best_car" /\ cars_json.valid /\ Len(Cars) = 0) => Failed

(***************************************************************************)
(* C2: on a successful non-empty ranking the best record's utility is the  *)
(* maximum utility over the returned records, and best is the first input  *)
(* candidate whose returned record carries that maximum.                   *)
(***************************************************************************)
C2_BestIsFirstMaximum ==
    RankedOk =>
        LET recs == ReturnedRecords
            top == Max({recs[i].utility : i \in 1..Len(recs)})
            first == Min({i \in 1..Len(Cars) :
                            \E j \in 1..Len(recs) : recs[j] = ("utility" :> top) @@ Cars[i]})
        IN  /\ Body.best_car # None
            /\ Body.best_car[1].utility = top
            /\ Body.best_car[1] = ("utility" :> top) @@ Cars[first]

\* C2 holds of server.py's handler, which compares the utilities it returns.
C2_ServerOnly == adapter = "server" => C2_BestIsFirstMaximum

(***************************************************************************)
(* C3: the returned sequence is a permutation of the input, non-increasing *)
(* in utility, and stable.  As stated, for both handlers.                  *)
(***************************************************************************)
Injections(n) == {p \in [1..n -> 1..n] : \A i, j \in 1..n : p[i] = p[j] => i = j}

SortedStablePermutation(recs) ==
    /\ Len(recs) = Len(Cars)
    /\ \E p \in Injections(Len(Cars)) :
          /\ \A i \in 1..Len(recs) : recs[i] = ("utility" :> recs[i].utility) @@ Cars[p[i]]
          /\ \A i, j \in 1..Len(recs) :
                i < j => /\ recs[i].utility >= recs[j].utility
                         /\ recs[i].utility = recs[j].utility => p[i] < p[j]

InInputOrder(recs) ==
    /\ Len(recs) = Len(Cars)
    /\ \A i \in 1..Len(recs) : recs[i] = ("utility" :> recs[i].utility) @@ Cars[i]

C3_RankedSortedStable == RankedOk => SortedStablePermutation(ReturnedRecords)

(***************************************************************************)
(* C3, amended: app.py's all_cars_ranked is a permutation of the input,    *)
(* non-increasing in the (4-decimal) utility field and stable; server.py's *)
(* all_cars_with_utilities is the input, in input order, each record with  *)
(* its utility.                                                            *)
(***************************************************************************)
C3_AppSortedServerInputOrder ==
    RankedOk =>
        /\ adapter = "app" => SortedStablePermutation(Body.all_cars_ranked)
        /\ adapter = "server" => InInputOrder(Body.all_cars_with_utilities)

\* app.py ranked two candidates and the sort moved the second one to the front.
C3_Witness ==
    /\ RankedOk /\ adapter = "app" /\ Len(Cars) = 2
    /\ Body.all_cars_ranked[1].utility > Body.all_cars_ranked[2].utility
    /\ Body.all_cars_ranked[1] = ("utility" :> Body.all_cars_ranked[1].utility) @@ Cars[2]
    /\ Cars[1] # Cars[2]

(***************************************************************************)
(* C4: resolve gives the full default vector when the key has no value or  *)
(* the stored object has no coefficient field, and otherwise the stored    *)
(* mapping unchanged; never a mixture of the two.                          *)
(***************************************************************************)
C4_DefaultOrStored ==
    (pc \in {"loop", "done"} /\ data_str # None /\ data_str[1].kind # "corrupt") =>
        /\ coeffs = Some(Expected(data_str[1]))
        /\ tool = "resolve" => outcome = returns(Expected(data_str[1]))

\* resolve returned for a stored object that has other fields and an
\* incomplete coefficient mapping.
C4_Witness ==
    /\ Done /\ tool = "resolve" /\ data_str # None /\ Succeeded
    /\ data_str[1].kind = "object"
    /\ DOMAIN data_str[1].data = {"coeffs", "meta"}
    /\ ~Complete(data_str[1].data["coeffs"])

(***************************************************************************)
(* C5: a value at the user's key that is not valid JSON makes resolve,     *)
(* scoreOne and rankMany end in an error and never in a result computed    *)
(* with the defaults; a key with no value gives the default vector.        *)
(***************************************************************************)
C5_CorruptIsAnError ==
    (Done /\ data_str # None) =>
        /\ data_str[1].kind = "corrupt" => (Failed /\ coeffs = None)
        /\ data_str[1].kind = "absent" => (Succeeded /\ coeffs = Some(TheDefault))

\* app.py's find_best_from_list ended on a corrupt value with candidates given.
C5_Witness ==
    /\ Done /\ tool = "find_best_car" /\ adapter = "app" /\ Len(Cars) > 0
    /\ data_str # None /\ data_str[1].kind = "corrupt"
    /\ Failed

C7_UtilityIsLinear ==
    (Done /\ Succeeded /\ tool # "resolve") =>
        /\ (adapter = "server" /\ tool = "calculate_utility") =>
              /\ Body.utility = Linear(Cars[1], coeffs[1])
              /\ (Cars[1] = TeslaModel3 /\ coeffs[1] = TheDefault) => Body.utility = -23030000
        /\ (adapter = "server" /\ tool = "find_best_car") =>
              /\ Len(Body.all_cars_with_utilities) = Len(Cars)
              /\ \A i \in 1..Len(Cars) :
                    Body.all_cars_with_utilities[i].utility = Linear(Cars[i], coeffs[1])
        /\ (adapter = "app" /\ tool = "calculate_utility") =>
              /\ Body.utility_score % 100 = 0
              /\ Body.utility_score - Linear(Cars[1], coeffs[1]) \in -50..50

\* A scored batch holding a record with an extra key, a null range and four
\* keys missing, whose utility is not a multiple of 0.0001, and the complete
\* example record.
C7_Witness ==
    /\ RankedOk /\ adapter = "server" /\ Len(Cars) = 2
    /\ DOMAIN Cars[1] = {"name", "price", "range"}
    /\ Cars[1]["range"] = None
    /\ Cars[2] = TeslaModel3
    /\ coeffs[1] = TheDefault
    /\ Body.all_cars_with_utilities[1].utility % 100 # 0
    /\ Body.all_cars_with_utilities[2].utility = -23030000

(***************************************************************************)
(* C8: a resolved coefficient mapping that lacks one of the six keys never *)
(* yields a success payload: every calculate_utility or find_best_car call *)
(* that resolved such a mapping fails with the missing-key error for the   *)
(* first absent key in FEATURE_KEYS order.  With no candidates the scorer   *)
(* is never called and the handlers return a success payload (see C1).     *)
(***************************************************************************)
FirstAbsentKey(c) ==
    FEATURE_KEYS[Min({i \in 1..Len(FEATURE_KEYS) : FEATURE_KEYS[i] \notin DOMAIN c})]

FailedOnKey(k) ==
    /\ Failed
    /\ outcome[1].kind = "raise" => outcome[1].exc = [type |-> "KeyError", arg |-> k]
    /\ outcome[1].kind = "return" => Body.error = "'" \o k \o "'"

C8_IncompleteNeverSucceeds ==
    (Done /\ tool # "resolve" /\ coeffs # None /\ ~Complete(coeffs[1])) =>
        FailedOnKey(FirstAbsentKey(coeffs[1]))

\* C8 holds of every call that scores at least one record.
C8_WhenSomethingIsScored ==
    (Done /\ tool # "resolve" /\ coeffs # None /\ ~Complete(coeffs[1]) /\ Len(Cars) > 0) =>
        FailedOnKey(FirstAbsentKey(coeffs[1]))

(***************************************************************************)
(* C9: one find_best_car call reads the store exactly once, before the     *)
(* first candidate is scored, and every utility of the batch and the       *)
(* reported coefficients come from that one read, whatever the training    *)
(* system writes to the user's key while the call is in progress.          *)
(***************************************************************************)
ScoredWith(car, c) == ("utility" :> shown_utility(adapter, Linear(car, c))) @@ car

C9_OneReadPerBatch ==
    (tool = "find_best_car" /\ pc \in {"loop", "done"} /\ coeffs # None) =>
        /\ lookups = 1
        /\ data_str # None
        /\ LET c == Expected(data_str[1])
           IN  /\ pc = "loop" =>
                     /\ Len(all_results) = idx - 1
                     /\ \A i \in 1..Len(all_results) : all_results[i] = ScoredWith(Cars[i], c)
               /\ (Done /\ Succeeded) =>
                     /\ Len(ReturnedRecords) = Len(Cars)
                     /\ \A j \in 1..Len(ReturnedRecords) :
                           \E i \in 1..Len(Cars) : ReturnedRecords[j] = ScoredWith(Cars[i], c)
                     /\ Body.best_car # None =>
                           \E i \in 1..Len(Cars) : Body.best_car[1] = ScoredWith(Cars[i], c)
                     /\ Body.coefficients_used = coefficients_used(adapter, c)

\* Two candidates were scored with the trained coefficients read at the start
\* while the user's entry has been deleted from the store in the meantime.
C9_Witness ==
    /\ tool = "find_best_car" /\ pc = "loop"
    /\ Len(Cars) = 2 /\ idx > Len(Cars) /\ Len(all_results) = 2
    /\ data_str # None /\ data_str[1].kind = "object"
    /\ coeffs # None /\ Complete(coeffs[1]) /\ coeffs[1] # TheDefault
    /\ store[redis_key(user_id)].kind = "absent"

(***************************************************************************)
(* C10: app.py's note says default coefficients exactly when resolve took  *)
(* the fallback path and saved preferences exactly when the stored mapping *)
(* was returned.  The note compares values, so a stored mapping equal to   *)
(* the defaults is reported as the default.                                *)
(***************************************************************************)
C10_NoteTellsThePath ==
    (Done /\ adapter = "app" /\ tool # "resolve" /\ Succeeded) =>
        /\ Body.note = "Using default coefficients" <=> Fallback(data_str[1])
        /\ Body.note = "Using saved user preferences" <=> ~Fallback(data_str[1])

\* The note is right about every stored mapping that differs from the defaults.
C10_UnlessEqualToDefault ==
    (Done /\ adapter = "app" /\ tool # "resolve" /\ Succeeded /\ coeffs[1] # TheDefault) =>
        /\ Body.note = "Using saved user preferences"
        /\ ~Fallback(data_str[1])

(***************************************************************************)
(* C11: in app.py's find_best_from_list, for every non-empty candidate     *)
(* list scored successfully, best_car is the same record as the first      *)
(* entry of all_cars_ranked.  best_car is chosen on the unrounded utility  *)
(* and the list is sorted on the rounded one, so two candidates whose      *)
(* utilities differ only beyond the fourth decimal can disagree.           *)
(***************************************************************************)
C11_BestIsFirstRanked ==
    (RankedOk /\ adapter = "app") =>
        /\ Body.best_car # None
        /\ Body.best_car[1] = Body.all_cars_ranked[1]

\* C11 holds whenever the candidates sharing the highest rounded utility
\* have the same unrounded utility.
C11_UnlessRoundingTie ==
    (RankedOk /\ adapter = "app"
        /\ \A i, j \in 1..Len(Cars) :
              (/\ round(Linear(Cars[i], coeffs[1]), 1000000, 4) = Body.all_cars_ranked[1].utility
               /\ round(Linear(Cars[j], coeffs[1]), 1000000, 4) = Body.all_cars_ranked[1].utility)
              => Linear(Cars[i], coeffs[1]) = Linear(Cars[j], coeffs[1])) =>
        /\ Body.best_car # None
        /\ Body.best_car[1] = Body.all_cars_ranked[1]

=============================================================================
